---- MODULE Spec2Model ----
(***************************************************************************)
(* Model of BailingMMNativeForConditionalGeneration                        *)
(* (src/modeling_bailingmm.py): placeholder substitution, the forward /    *)
(* generate orchestration, and the image-generation loading state.         *)
(*                                                                         *)
(* Tensors are nested sequences: ids[b][s], embeds[b][s][h], rows[k][h].   *)
(* An optional argument is None (<<>>) or Some(x) (<<x>>).                 *)
(***************************************************************************)
EXTENDS Integers, Sequences, FiniteSets, TLC

\* ---------------------------------------------------------------- bounds
HiddenSize == 2      \* width of one embedding row
MaxBatch == 2        \* largest batch of input_ids
MaxSeq == 2          \* largest sequence length of input_ids
MaxRows == 3         \* largest number of feature rows of one modality
ImagePatchToken == 2 \* config.llm_config.image_patch_token at construction

\* size of the embedding table: holds the patch, start and end tokens
VocabSize == ImagePatchToken + 3

None == <<>>
Some(x) == <<x>>
IsNone(o) == Len(o) = 0
Val(o) == o[1]

\* ------------------------------------------------------- tensor helpers
\* The value of F at e, with e evaluated once (TLC evaluates a definition
\* anew wherever its name occurs, a bound variable only where it is bound).
Bind(e, F(_)) == CHOOSE y \in {F(x) : x \in {e}} : TRUE

\* the same sequence, held by TLC as an explicit tuple
AsTuple(f) == f \o <<>>

\* the rows of a rectangular tensor laid end to end (row-major flattening)
Concat(ss) ==
    IF Len(ss) = 0 THEN <<>>
    ELSE Bind(Len(ss[1]), LAMBDA n :
             AsTuple([i \in 1..(Len(ss) * n) |->
                         ss[((i - 1) \div n) + 1][((i - 1) % n) + 1]]))

\* all elements of a [b][s][h] tensor in row-major order
Flat3(t) == Bind(Concat(t), LAMBDA rows : Concat(rows))

\* tensor.shape[0], tensor.shape[1] of a [b][s] or [b][s][h] tensor
Size0(t) == Len(t)
Size1(t) == IF Len(t) = 0 THEN 0 ELSE Len(t[1])

\* (ids == tok): elementwise comparison of a [b][s] tensor with a scalar
EqMask(ids, tok) ==
    AsTuple([b \in 1..Len(ids) |-> AsTuple([s \in 1..Len(ids[b]) |-> ids[b][s] = tok])])

\* mask.sum(): number of true entries of a [b][s] boolean tensor
MaskSum(m) == Cardinality({p \in (1..Size0(m)) \X (1..Size1(m)) : m[p[1]][p[2]]})

\* a variant that expands the mask of the first batch row only
ExpandAsFirstRow(m, embeds) ==
    AsTuple([b \in 1..Len(embeds) |-> AsTuple([s \in 1..Len(embeds[b]) |->
        AsTuple([h \in 1..Len(embeds[b][s]) |-> b = 1 /\ m[b][s]])])])

\* mask.unsqueeze(-1).expand_as(embeds): a [b][s] mask repeated over h
ExpandAs(m, embeds) ==
    AsTuple([b \in 1..Len(embeds) |-> AsTuple([s \in 1..Len(embeds[b]) |->
        AsTuple([h \in 1..Len(embeds[b][s]) |-> m[b][s]])])])

\* number of true entries among the first i of a flattened boolean tensor
TrueUpTo(maskF, i) == Cardinality({k \in 1..i : maskF[k]})
NumTrue(maskF) == TrueUpTo(maskF, Len(maskF))

\* a variant that reuses the first source element for every masked position
ScatterFlatStuck(selfF, maskF, srcF) ==
    AsTuple([k \in 1..Len(selfF) |-> IF maskF[k] THEN srcF[1] ELSE selfF[k]])

\* a variant that ignores the mask and fills from the front
ScatterFlatPrefix(selfF, maskF, srcF) ==
    AsTuple([k \in 1..Len(selfF) |->
                IF k <= NumTrue(maskF) THEN srcF[k] ELSE selfF[k]])

\* torch.Tensor.masked_scatter on flattened operands: in row-major order,
\* every position whose mask is true takes the next unused element of the
\* source (the n-th true position takes the n-th element); the others keep
\* the target's element.
ScatterFlat(selfF, maskF, srcF) ==
    AsTuple([i \in 1..Len(selfF) |->
                IF maskF[i] THEN srcF[TrueUpTo(maskF, i)] ELSE selfF[i]])

\* masked_scatter needs at least as many source elements as true mask entries
ScatterFits(mask, source) ==
    Bind(Flat3(mask), LAMBDA maskF : NumTrue(maskF) <= Len(Concat(source)))

\* a flat sequence cut back into a [B][S][H] tensor
Unflatten(flat, B, S, H) ==
    AsTuple([b \in 1..B |-> AsTuple([s \in 1..S |->
        AsTuple([h \in 1..H |-> flat[((b - 1) * S + (s - 1)) * H + h]])])])

masked_scatter(self, mask, source) ==
    Bind(<<Flat3(self), Flat3(mask), Concat(source)>>, LAMBDA f :
        Bind(ScatterFlat(f[1], f[2], f[3]), LAMBDA flat :
            Unflatten(flat, Size0(self), Size1(self),
                      IF Size1(self) = 0 THEN 0 ELSE Len(self[1][1]))))

\* vision_embeds is [ndim |-> 2, data |-> rows] or [ndim |-> 3, data |-> groups
\* of rows]; reshape(-1, shape[-1]) of the latter lists the rows group by group
Reshape2(v) == IF v.ndim = 3 THEN Concat(v.data) ELSE v.data

\* ------------------------------------------------------------ the state
VARIABLES
    image_patch_token,         \* self.config.llm_config.image_patch_token
    loaded_image_gen_modules,  \* self.loaded_image_gen_modules
    attrs,                     \* attributes assigned by load_image_gen_modules
    img_gen_scales,            \* self.img_gen_scales (<<>> while unassigned)
    scale_indices,             \* self.scale_indices (<<>> while unassigned)
    from_pretrained_model,     \* the object was returned by from_pretrained
    op,                        \* the last method called on the object
    args,                      \* its arguments
    outcome,                   \* "return" or the exception it raised
    ret,                       \* its return value
    calls                      \* encoder / substitution / LM calls it made

vars == <<image_patch_token, loaded_image_gen_modules, attrs, img_gen_scales,
          scale_indices, from_pretrained_model, op, args, outcome, ret, calls>>

object == <<loaded_image_gen_modules, attrs, img_gen_scales, scale_indices,
            from_pretrained_model>>

\* ------------------------------------------------- prompt_wrap_vision
\* a variant that skips the count check
CountMismatchNever(n_image_tokens, n_image_features) == FALSE

CountMismatch(n_image_tokens, n_image_features) ==
    n_image_tokens # n_image_features

\* a variant that never takes the caller's token id
EffectiveTokenConfigOnly(tok, image_token_id) == tok

\* image_token_id if image_token_id is not None else the configured token
EffectiveToken(tok, image_token_id) ==
    IF ~IsNone(image_token_id) THEN Val(image_token_id) ELSE tok

\* The result of prompt_wrap_vision: the outcome, the returned value and the
\* value config.llm_config.image_patch_token has afterwards.
prompt_wrap_vision(tok, input_ids, inputs_embeds, vision_embeds, image_token_id) ==
    IF IsNone(vision_embeds) \/ IsNone(input_ids)
    THEN [outcome |-> "return", tok |-> tok,
          ret |-> [arity |-> 1, embeds |-> inputs_embeds, image_mask |-> None]]
    ELSE
      LET rows == Reshape2(Val(vision_embeds))
          tok2 == EffectiveToken(tok, image_token_id)
          raised(e) == [outcome |-> e, tok |-> tok2,
                        ret |-> [arity |-> 0, embeds |-> None, image_mask |-> None]]
      IN Bind(EqMask(Val(input_ids), tok2), LAMBDA image_router_mask :
           IF CountMismatch(MaskSum(image_router_mask), Len(rows))
           THEN raised("ValueError")
           ELSE Bind(ExpandAs(image_router_mask, Val(inputs_embeds)), LAMBDA image_mask :
                  IF ~ScatterFits(image_mask, rows)
                  THEN raised("RuntimeError")
                  ELSE [outcome |-> "return", tok |-> tok2,
                        ret |-> [arity |-> 2,
                                 embeds |-> Some(masked_scatter(Val(inputs_embeds),
                                                                image_mask, rows)),
                                 image_mask |-> Some(image_router_mask)]]))

\* ---------------------------------------------------- prompt_wrap_audio
\* modeling_utils.patch_continuous_features: in every batch row the segment
\* (start, len) of placeholder_loc_lens takes the first len encoded rows
patch_continuous_features(input_embeddings, placeholder_loc_lens, encoded_feats) ==
    AsTuple([b \in 1..Len(input_embeddings) |->
        AsTuple([s \in 1..Len(input_embeddings[b]) |->
            LET start == placeholder_loc_lens[b][1]
                len == placeholder_loc_lens[b][2]
            IN IF s - 1 >= start /\ s - 1 < start + len
               THEN encoded_feats[b][s - start]
               ELSE input_embeddings[b][s]])])

\* modeling_utils.build_modality_mask: true inside every segment
build_modality_mask(placeholder_loc_lens, B, S) ==
    AsTuple([b \in 1..B |-> AsTuple([s \in 1..S |->
        /\ s - 1 >= placeholder_loc_lens[b][1]
        /\ s - 1 < placeholder_loc_lens[b][1] + placeholder_loc_lens[b][2]])])

prompt_wrap_audio(inputs_embeds, audio_embeds, placeholder_audio_loc_lens) ==
    Bind(patch_continuous_features(inputs_embeds, placeholder_audio_loc_lens, audio_embeds),
         LAMBDA e :
            [embeds |-> e,
             audio_mask |-> build_modality_mask(placeholder_audio_loc_lens,
                                                Size0(e), Size1(e))])

\* ---------------------------------------------------- prompt_wrap_navit
\* the rows of the embedding table, get_input_embeddings()
EmbeddingRow(t) == AsTuple([h \in 1..HiddenSize |-> 10 * t + h])
Embedding(ids) ==
    AsTuple([b \in 1..Len(ids) |->
        AsTuple([s \in 1..Len(ids[b]) |-> EmbeddingRow(ids[b][s])])])

\* the video and audio steps of prompt_wrap_navit, after the image step r1
NavitAfterImage(tok, input_ids, r1, query_embeds_video, audio) ==
    LET raised(e) == [outcome |-> e,
                      ret |-> [arity |-> 0, embeds |-> None,
                               image_mask |-> None, audio_mask |-> None]]
    IN
    IF r1.outcome # "return" THEN raised(r1.outcome)
    ELSE Bind(IF ~IsNone(query_embeds_video)
              THEN prompt_wrap_vision(tok, Some(input_ids), r1.ret.embeds,
                                      query_embeds_video, None)
              ELSE r1,
              LAMBDA r2 :
         IF r2.outcome # "return" THEN raised(r2.outcome)
         ELSE Bind(IF ~IsNone(audio)
                   THEN prompt_wrap_audio(Val(r2.ret.embeds), Val(audio).embeds,
                                          Val(audio).loc_lens)
                   ELSE [embeds |-> Val(r2.ret.embeds)],
                   LAMBDA a :
              [outcome |-> "return",
               ret |-> [arity |-> 3, embeds |-> Some(a.embeds),
                        image_mask |-> r2.ret.image_mask,
                        audio_mask |-> IF ~IsNone(audio) THEN Some(a.audio_mask)
                                       ELSE None]]))

\* audio is None or Some([embeds, loc_lens]); the other arguments are options
prompt_wrap_navit(tok, input_ids, query_embeds_image, query_embeds_video, audio, target_embeds) ==
    Bind(Embedding(input_ids), LAMBDA inputs_embeds :
        IF IsNone(query_embeds_image) /\ IsNone(query_embeds_video)
           /\ IsNone(audio) /\ IsNone(target_embeds)
        THEN [outcome |-> "return",
              ret |-> [arity |-> 1, embeds |-> Some(inputs_embeds),
                       image_mask |-> None, audio_mask |-> None]]
        ELSE Bind(IF ~IsNone(query_embeds_image)
                  THEN prompt_wrap_vision(tok, Some(input_ids), Some(inputs_embeds),
                                          query_embeds_image, None)
                  ELSE [outcome |-> "return",
                        ret |-> [embeds |-> Some(inputs_embeds), image_mask |-> None]],
                  LAMBDA r1 :
                     NavitAfterImage(tok, input_ids, r1, query_embeds_video, audio)))

\* ------------------------------------------------ feature extraction
\* extract_image_feature: pixel values of n patches (and a base that tells
\* image from video) give n normalised feature rows
FeatureRows(base, n) ==
    AsTuple([k \in 1..n |-> AsTuple([h \in 1..HiddenSize |-> base + 10 * k + h])])
extract_image_feature(pixel_values) ==
    [ndim |-> 2, data |-> FeatureRows(pixel_values.base, pixel_values.n)]

\* extract_audio_feature: one encoded row for every batch row
AudioBase == 3 * 1000
extract_audio_feature(audio_feats) ==
    AsTuple([b \in 1..audio_feats.batch |-> FeatureRows(AudioBase + 100 * b, 1)])

\* -------------------------------------------------- forward / generate
\* input_ids.clip(0, weight.shape[0] - 1)
Clip(ids, lo, hi) ==
    AsTuple([b \in 1..Len(ids) |-> AsTuple([s \in 1..Len(ids[b]) |->
        IF ids[b][s] < lo THEN lo ELSE IF ids[b][s] > hi THEN hi ELSE ids[b][s]])])

Event(name, arg) == [ev |-> name, arg |-> arg]

\* a variant that accepts input_ids together with inputs_embeds
IdsEmbedsInvalidBothAbsent(input_ids, inputs_embeds) ==
    IsNone(input_ids) /\ IsNone(inputs_embeds)

\* (input_ids is None) ^ (inputs_embeds is not None)
IdsEmbedsInvalid(input_ids, inputs_embeds) ==
    IsNone(input_ids) # ~IsNone(inputs_embeds)

\* a modality input together with inputs_embeds
ModalityWithEmbeds(pixel_values, pixel_values_videos, audio_feats, inputs_embeds) ==
    /\ ~IsNone(pixel_values) \/ ~IsNone(pixel_values_videos) \/ ~IsNone(audio_feats)
    /\ ~IsNone(inputs_embeds)

\* a variant that never substitutes
TextOnlyAlways(image_embeds, video_embeds, audio_embeds, seq_len) == TRUE

\* no encoder output, or a single-token step: plain token embeddings
TextOnly(image_embeds, video_embeds, audio_embeds, seq_len) ==
    \/ IsNone(image_embeds) /\ IsNone(video_embeds) /\ IsNone(audio_embeds)
    \/ seq_len = 1

\* The embeddings and masks handed to the inner LM, with the calls made to
\* get them.  input_ids is an option: None has no clip and no size.
WordsAndMasks(tok, input_ids, image_embeds, video_embeds, audio_embeds, loc_lens) ==
    IF IsNone(input_ids)
    THEN [outcome |-> "AttributeError", calls |-> <<>>]
    ELSE
      Bind(Clip(Val(input_ids), 0, VocabSize - 1), LAMBDA ids :
         IF TextOnly(image_embeds, video_embeds, audio_embeds, Size1(Val(input_ids)))
         THEN [outcome |-> "return",
               calls |-> <<Event("get_input_embeddings", ids)>>,
               words_embeddings |-> Some(Embedding(ids)),
               image_mask |-> None, audio_mask |-> None]
         ELSE
           Bind(prompt_wrap_navit(tok, ids, image_embeds, video_embeds,
                                  IF IsNone(audio_embeds) THEN None
                                  ELSE Some([embeds |-> Val(audio_embeds),
                                             loc_lens |-> loc_lens]),
                                  None),
                LAMBDA r :
                   [outcome |-> r.outcome,
                    calls |-> <<Event("prompt_wrap_navit", r.ret)>>,
                    words_embeddings |-> r.ret.embeds,
                    image_mask |-> r.ret.image_mask, audio_mask |-> r.ret.audio_mask]))

\* the encoder calls of forward, in the order of the code
Encoders(pixel_values, pixel_values_videos, audio_feats) ==
    (IF IsNone(pixel_values) THEN <<>>
     ELSE <<Event("extract_image_feature", "image")>>)
    \o (IF IsNone(pixel_values_videos) THEN <<>>
        ELSE <<Event("extract_image_feature", "video")>>)
    \o (IF IsNone(audio_feats) THEN <<>>
        ELSE <<Event("extract_audio_feature", "audio")>>)

Encoded(pixel_values) ==
    IF IsNone(pixel_values) THEN None ELSE Some(extract_image_feature(Val(pixel_values)))
EncodedAudio(audio_feats) ==
    IF IsNone(audio_feats) THEN None ELSE Some(extract_audio_feature(Val(audio_feats)))

\* the call of the inner LM that ends forward and generate
ThenLM(name, enc, w) ==
    IF w.outcome # "return"
    THEN [outcome |-> w.outcome, calls |-> enc \o w.calls]
    ELSE [outcome |-> "return",
          calls |-> enc \o w.calls
                    \o <<Event(name, [inputs_embeds |-> w.words_embeddings,
                                      image_mask |-> w.image_mask,
                                      audio_mask |-> w.audio_mask])>>]

forward(tok, input_ids, inputs_embeds, pixel_values, pixel_values_videos, audio_feats, loc_lens) ==
    IF IdsEmbedsInvalid(input_ids, inputs_embeds)
    THEN [outcome |-> "ValueError", calls |-> <<>>]
    ELSE IF ModalityWithEmbeds(pixel_values, pixel_values_videos, audio_feats, inputs_embeds)
    THEN [outcome |-> "ValueError", calls |-> <<>>]
    ELSE
      Bind(<<Encoded(pixel_values), Encoded(pixel_values_videos), EncodedAudio(audio_feats)>>,
           LAMBDA e :
      Bind(WordsAndMasks(tok, input_ids, e[1], e[2], e[3], loc_lens), LAMBDA w :
           ThenLM("model", Encoders(pixel_values, pixel_values_videos, audio_feats), w)))

\* ------------------- append_input_ids_with_multiscale_learnable_tokens
Rep(x, n) == AsTuple([i \in 1..n |-> x])

\* a variant that appends scale * 2 patch tokens
PatchCountDouble(scale) == scale * 2

\* scale ** 2
PatchCount(scale) == scale * scale

\* a variant whose gen mask also marks the start and the end token
GenBlockAllOnes(scale) == Rep(1, PatchCount(scale) + 2)

\* what one scale adds to gen_mask: [[0]], [[1] * (scale ** 2)], [[0]]
GenBlock(scale) == <<0>> \o Rep(1, PatchCount(scale)) \o <<0>>

\* what one scale adds to attention_mask: [[1] * ((scale ** 2) + 2)]
AttnBlock(scale) == Rep(1, PatchCount(scale) + 2)

\* the loop over the scales, on the only batch row of each tensor
RECURSIVE AppendScales(_, _, _, _, _, _, _)
AppendScales(text, attn, gen, scales, start_token_id, end_token_id, patch_token_id) ==
    IF Len(scales) = 0
    THEN [text_ids |-> <<text>>, attention_mask |-> <<attn>>, gen_mask |-> <<gen>>]
    ELSE Bind(<<text \o <<start_token_id>> \o Rep(patch_token_id, PatchCount(Head(scales)))
                     \o <<end_token_id>>,
                attn \o AttnBlock(Head(scales)),
                gen \o GenBlock(Head(scales))>>,
              LAMBDA x :
                 AppendScales(x[1], x[2], x[3], Tail(scales),
                              start_token_id, end_token_id, patch_token_id))

\* the shape of a [b][s] tensor whose rows have one length
Shape(t) == <<Size0(t), Size1(t)>>

append_input_ids_with_multiscale_learnable_tokens(text_ids, attention_mask, scales, start_token_id, end_token_id, patch_token_id) ==
    IF IsNone(text_ids) \/ IsNone(attention_mask)
    THEN [outcome |-> "AttributeError"]
    ELSE IF Size0(Val(text_ids)) # 1
    THEN [outcome |-> "AssertionError"]
    ELSE IF Shape(Val(attention_mask)) # Shape(Val(text_ids))
    THEN [outcome |-> "AssertionError"]
    ELSE [outcome |-> "return",
          ret |-> AppendScales(AsTuple(Val(text_ids)[1]), AsTuple(Val(attention_mask)[1]),
                               Rep(0, Size1(Val(attention_mask))), scales,
                               start_token_id, end_token_id, patch_token_id)]

\* ------------------------------------------------ load_image_gen_modules
ImgGenScales == <<4, 8, 16>>

\* a variant that records every scale's own patch count
CumulativeIndicesPerScale(scales, current_idx) ==
    AsTuple([n \in 1..Len(scales) |-> scales[n] * scales[n]])

\* the cumulative patch counts of the scales
RECURSIVE CumulativeIndices(_, _)
CumulativeIndices(scales, current_idx) ==
    IF Len(scales) = 0 THEN <<>>
    ELSE <<current_idx + Head(scales) * Head(scales)>>
         \o CumulativeIndices(Tail(scales), current_idx + Head(scales) * Head(scales))

\* The places where load_image_gen_modules can stop with an exception, by the
\* number of assignment groups done before: 0 reading the state dict,
\* 1 loading the query tokens, 2 building the diffusion module, 3 loading the
\* connector, 4 loading the projections; LoadStages is the full run.
LoadStages == 5
AssignedAt(stage) ==
    (IF stage >= 1 THEN {"query_tokens_dict", "img_gen_scales"} ELSE {})
    \cup (IF stage >= 2 THEN {"scale_indices"} ELSE {})
    \cup (IF stage >= 3 THEN {"diffusion_loss"} ELSE {})
    \cup (IF stage >= 4 THEN {"connector", "proj_in", "proj_out"} ELSE {})

\* a variant that sets the flag as soon as the query tokens are assigned
FlagSetAtEarly(stage) == stage >= 1

\* self.loaded_image_gen_modules = True is the last statement
FlagSetAt(stage) == stage = LoadStages

\* the learned query tokens of one scale
QueryBase == 100 * 1000
query_tokens_dict(scale) == FeatureRows(QueryBase * scale, scale * scale)

\* ------------------------------------------------------------- generate
\* the hidden states of the inner LM's last layer: one row per position,
\* here a value that names the position
HiddenStates(words_embeddings) ==
    AsTuple([b \in 1..Len(words_embeddings) |->
        AsTuple([s \in 1..Len(words_embeddings[b]) |->
            AsTuple([h \in 1..HiddenSize |-> 10 * s + h])])])

\* the rows of one batch row whose gen mask is set
SelectRow(hidden_row, gen_row) ==
    Bind(SelectSeq(AsTuple([s \in 1..Len(hidden_row) |->
                              [row |-> hidden_row[s], keep |-> gen_row[s] # 0]]),
                   LAMBDA x : x.keep),
         LAMBDA kept : AsTuple([k \in 1..Len(kept) |-> kept[k].row]))

\* torch.masked_select(hidden, mask).view(batch, -1, hidden_size) with the
\* gen mask expanded over the hidden dimension
SelectGen(hidden_states, gen_mask) ==
    AsTuple([b \in 1..Len(hidden_states) |-> SelectRow(hidden_states[b], gen_mask[b])])

Last(s) == s[Len(s)]

\* a variant that keeps the first scale of the zip
LastScaleSliceFirst(hidden_states_gen, scales, indices) ==
    [scale |-> scales[1],
     rows |-> AsTuple([b \in 1..Len(hidden_states_gen) |->
                  SubSeq(hidden_states_gen[b], 1, indices[1])])]

\* [i for i in zip(scales, starts, ends)][-1:] and the slice of the hidden
\* states it selects
LastScaleSlice(hidden_states_gen, scales, indices) ==
    LET starts == <<0>> \o SubSeq(indices, 1, Len(indices) - 1)
        n == IF Len(scales) < Len(indices) THEN Len(scales) ELSE Len(indices)
    IN [scale |-> scales[n],
        rows |-> AsTuple([b \in 1..Len(hidden_states_gen) |->
                     SubSeq(hidden_states_gen[b], starts[n] + 1, indices[n])])]

RECURSIVE ConcatQueryTokens(_)
ConcatQueryTokens(scales) ==
    IF Len(scales) = 0 THEN <<>>
    ELSE query_tokens_dict(Head(scales)) \o ConcatQueryTokens(Tail(scales))

\* lines 422-464: the hidden states of the gen positions, the assertion on
\* their number, the connector and the sampler on the last scale
SampleImage(scales, indices, gen_mask, w) ==
    LET lm == Event("model.forward", [inputs_embeds |-> w.words_embeddings,
                                      image_mask |-> w.image_mask,
                                      audio_mask |-> w.audio_mask])
    IN Bind(SelectGen(HiddenStates(Val(w.words_embeddings)), gen_mask),
            LAMBDA hidden_states_gen :
               IF Last(indices) # Len(hidden_states_gen[1])
               THEN [outcome |-> "AssertionError", calls |-> w.calls \o <<lm>>]
               ELSE Bind(LastScaleSlice(hidden_states_gen, scales, indices), LAMBDA sl :
                       [outcome |-> "return",
                        calls |-> w.calls \o <<lm, Event("connector", sl),
                                               Event("diffusion_loss.sample", sl.scale)>>]))

\* lines 392-421: the query tokens joined to the image features, the
\* substitution and the inner LM's forward, on the result a of the append
SubstituteQueryTokens(tok, scales, indices, a, image_embeds, video_embeds, loc_lens) ==
    IF ~IsNone(video_embeds) THEN [outcome |-> "AssertionError", calls |-> <<>>]
    ELSE Bind(IF IsNone(image_embeds) THEN ConcatQueryTokens(scales)
              ELSE Val(image_embeds).data \o ConcatQueryTokens(scales),
              LAMBDA all_embeds :
         Bind(WordsAndMasks(tok, Some(a.ret.text_ids),
                            Some([ndim |-> 2, data |-> all_embeds]),
                            video_embeds, None, loc_lens),
              LAMBDA w :
                 IF w.outcome # "return"
                 THEN [outcome |-> w.outcome, calls |-> w.calls]
                 ELSE SampleImage(scales, indices, a.ret.gen_mask, w)))

\* the scales generate passes to the append, a literal of the call
GenerateScales == <<4, 8, 16>>

\* the image_gen branch of generate, after the encoders and the flag
generate_image(tok, scales, indices, input_ids, attention_mask, image_embeds, video_embeds, loc_lens) ==
    Bind(append_input_ids_with_multiscale_learnable_tokens(
             input_ids, attention_mask, GenerateScales, tok + 1, tok + 2, tok),
         LAMBDA a :
            IF a.outcome # "return" THEN [outcome |-> a.outcome, calls |-> <<>>]
            ELSE SubstituteQueryTokens(tok, scales, indices, a, image_embeds,
                                       video_embeds, loc_lens))

generate(tok, loaded, scales, indices, input_ids, attention_mask, pixel_values, pixel_values_videos, audio_feats, loc_lens, image_gen) ==
    Bind(<<Encoded(pixel_values), Encoded(pixel_values_videos)>>, LAMBDA e :
      IF image_gen
      THEN IF ~loaded
           THEN [outcome |-> "AssertionError",
                 calls |-> Encoders(pixel_values, pixel_values_videos, None)]
           ELSE Bind(generate_image(tok, scales, indices, input_ids, attention_mask,
                                    e[1], e[2], loc_lens),
                     LAMBDA g :
                        [outcome |-> g.outcome,
                         calls |-> Encoders(pixel_values, pixel_values_videos, None)
                                   \o g.calls])
      ELSE Bind(WordsAndMasks(tok, input_ids, e[1], e[2], EncodedAudio(audio_feats),
                              loc_lens),
                LAMBDA w :
                   ThenLM("model.generate",
                          Encoders(pixel_values, pixel_values_videos, None)
                          \o Encoders(None, None, audio_feats), w)))

\* ------------------------------------------------------------ inputs
TextToken == ImagePatchToken - 1
Tokens == {TextToken, ImagePatchToken, ImagePatchToken + 1}

IdTensors ==
    UNION {[1..B -> [1..S -> Tokens]] : B \in 1..MaxBatch, S \in 1..MaxSeq}

\* an embedding tensor whose every element names its own position
PosEmbeds(B, S) ==
    [b \in 1..B |-> [s \in 1..S |-> [h \in 1..HiddenSize |-> 100 * b + 10 * s + h]]]

\* bases that keep image, video and audio rows apart from text embeddings
ImageBase == 1 * 1000
VideoBase == 2 * 1000

\* the same rows as a 3-d tensor of a groups of b rows
FeatureGroups(base, a, b) ==
    [g \in 1..a |-> [r \in 1..b |-> FeatureRows(base, a * b)[(g - 1) * b + r]]]

VisionTensors(base) ==
    {[ndim |-> 2, data |-> FeatureRows(base, n)] : n \in 0..MaxRows}
    \cup {[ndim |-> 3, data |-> FeatureGroups(base, 2, b)] : b \in 1..(MaxRows \div 2)}

Vision2d(base) == {[ndim |-> 2, data |-> FeatureRows(base, n)] : n \in 0..MaxRows}

\* one audio segment per batch row: the first position, one encoded row
AudioFor(ids) ==
    [embeds |-> [b \in 1..Len(ids) |-> FeatureRows(AudioBase + 100 * b, 1)],
     loc_lens |-> [b \in 1..Len(ids) |-> <<0, 1>>]]

Opt(S) == {None} \cup {Some(x) : x \in S}

\* ------------------------------------------------------------ actions
Init ==
    /\ image_patch_token = ImagePatchToken
    /\ loaded_image_gen_modules = FALSE
    /\ attrs = {}
    /\ img_gen_scales = <<>>
    /\ scale_indices = <<>>
    /\ from_pretrained_model = FALSE
    /\ op = "__init__"
    /\ args = <<>>
    /\ outcome = "return"
    /\ ret = <<>>
    /\ calls = <<>>

\* the caller has taken the result of the last call; the next call can start
Idle == op = "none"

Continue ==
    /\ ~Idle
    /\ op' = "none"
    /\ args' = <<>>
    /\ outcome' = "return"
    /\ ret' = <<>>
    /\ calls' = <<>>
    /\ UNCHANGED <<image_patch_token, object>>

\* a direct call of prompt_wrap_vision
PromptWrapVision ==
    /\ Idle
    /\ \E input_ids \in Opt(IdTensors), vision_embeds \in Opt(VisionTensors(ImageBase)),
          image_token_id \in Opt({ImagePatchToken + 1}) :
         LET inputs_embeds ==
                 IF IsNone(input_ids) THEN Some(PosEmbeds(1, 1))
                 ELSE Some(PosEmbeds(Size0(Val(input_ids)), Size1(Val(input_ids))))
         IN \E r \in {prompt_wrap_vision(image_patch_token, input_ids, inputs_embeds,
                                         vision_embeds, image_token_id)} :
            /\ op' = "prompt_wrap_vision"
            /\ args' = [config_token |-> image_patch_token, input_ids |-> input_ids,
                        inputs_embeds |-> inputs_embeds, vision_embeds |-> vision_embeds,
                        image_token_id |-> image_token_id]
            /\ outcome' = r.outcome
            /\ ret' = r.ret
            /\ image_patch_token' = r.tok
            /\ calls' = <<>>
            /\ UNCHANGED object

\* a direct call of prompt_wrap_navit
PromptWrapNavit ==
    /\ Idle
    /\ \E input_ids \in IdTensors, query_embeds_image \in Opt(Vision2d(ImageBase)),
          query_embeds_video \in Opt(Vision2d(VideoBase)), with_audio \in BOOLEAN,
          target_embeds \in Opt({0}) :
         LET audio == IF with_audio THEN Some(AudioFor(input_ids)) ELSE None
         IN \E r \in {prompt_wrap_navit(image_patch_token, input_ids, query_embeds_image,
                                        query_embeds_video, audio, target_embeds)} :
            /\ op' = "prompt_wrap_navit"
            /\ args' = [config_token |-> image_patch_token, input_ids |-> input_ids,
                        query_embeds_image |-> query_embeds_image,
                        query_embeds_video |-> query_embeds_video,
                        audio |-> audio, target_embeds |-> target_embeds]
            /\ outcome' = r.outcome
            /\ ret' = r.ret
            /\ calls' = <<>>
            /\ UNCHANGED <<image_patch_token, object>>

NextWrap == PromptWrapVision \/ PromptWrapNavit \/ Continue

SpecWrap == Init /\ [][NextWrap]_vars

\* ---- forward, generate and the loading of the image-generation modules
PromptTokens == {TextToken, ImagePatchToken}
PromptTensors ==
    UNION {[1..B -> [1..S -> PromptTokens]] : B \in 1..MaxBatch, S \in 1..MaxSeq}

PixelValues(base) == {[base |-> base, n |-> n] : n \in 1..MaxRows}

\* the audio arguments that go with input_ids: features for every batch row
\* and placeholder_loc_lens that give each row the segment (0, 1)
BatchOf(input_ids) == IF IsNone(input_ids) THEN 1 ELSE Size0(Val(input_ids))
AudioFeats(input_ids) == [batch |-> BatchOf(input_ids)]
LocLens(input_ids) == [b \in 1..BatchOf(input_ids) |-> <<0, 1>>]

Forward ==
    /\ Idle
    /\ \E input_ids \in Opt(PromptTensors), with_embeds \in BOOLEAN,
          pixel_values \in Opt(PixelValues(ImageBase)),
          pixel_values_videos \in Opt(PixelValues(VideoBase)), with_audio \in BOOLEAN :
         LET inputs_embeds ==
                 IF ~with_embeds THEN None
                 ELSE Some(PosEmbeds(BatchOf(input_ids),
                                     IF IsNone(input_ids) THEN 1 ELSE Size1(Val(input_ids))))
             audio_feats == IF with_audio THEN Some(AudioFeats(input_ids)) ELSE None
         IN \E r \in {forward(image_patch_token, input_ids, inputs_embeds, pixel_values,
                              pixel_values_videos, audio_feats, LocLens(input_ids))} :
            /\ op' = "forward"
            /\ args' = [input_ids |-> input_ids, inputs_embeds |-> inputs_embeds,
                        pixel_values |-> pixel_values,
                        pixel_values_videos |-> pixel_values_videos,
                        audio_feats |-> audio_feats]
            /\ outcome' = r.outcome
            /\ ret' = <<>>
            /\ calls' = r.calls
            /\ UNCHANGED <<image_patch_token, object>>

Generate ==
    /\ Idle
    /\ \E input_ids \in Opt(PromptTensors), pixel_values \in Opt(PixelValues(ImageBase)),
          pixel_values_videos \in Opt(PixelValues(VideoBase)), with_audio \in BOOLEAN,
          image_gen \in BOOLEAN :
         LET attention_mask ==
                 IF IsNone(input_ids) THEN None
                 ELSE Some([b \in 1..Size0(Val(input_ids)) |->
                               Rep(1, Size1(Val(input_ids)))])
             audio_feats == IF with_audio THEN Some(AudioFeats(input_ids)) ELSE None
         IN \E r \in {generate(image_patch_token, loaded_image_gen_modules, img_gen_scales,
                               scale_indices, input_ids, attention_mask, pixel_values,
                               pixel_values_videos, audio_feats, LocLens(input_ids),
                               image_gen)} :
            /\ op' = "generate"
            /\ args' = [input_ids |-> input_ids, attention_mask |-> attention_mask,
                        pixel_values |-> pixel_values,
                        pixel_values_videos |-> pixel_values_videos,
                        audio_feats |-> audio_feats, image_gen |-> image_gen]
            /\ outcome' = r.outcome
            /\ ret' = <<>>
            /\ calls' = r.calls
            /\ UNCHANGED <<image_patch_token, object>>

\* load_image_gen_modules run on the object up to `stage`
Loaded(stage) ==
    /\ attrs' = attrs \cup AssignedAt(stage)
    /\ img_gen_scales' = IF stage >= 1 THEN ImgGenScales ELSE img_gen_scales
    /\ scale_indices' = IF stage >= 2 THEN CumulativeIndices(ImgGenScales, 0)
                        ELSE scale_indices
    /\ loaded_image_gen_modules' = (loaded_image_gen_modules \/ FlagSetAt(stage))

LoadImageGenModules ==
    /\ Idle
    /\ \E stage \in 0..LoadStages :
         /\ Loaded(stage)
         /\ op' = "load_image_gen_modules"
         /\ args' = [stage |-> stage]
         /\ outcome' = IF stage = LoadStages THEN "return" ELSE "LoadError"
         /\ ret' = <<>>
         /\ calls' = <<>>
         /\ UNCHANGED <<image_patch_token, from_pretrained_model>>

\* from_pretrained builds a new object and loads the modules into it; the
\* caller gets the object only when the loading did not raise
FromPretrained ==
    /\ Idle
    /\ \E stage \in 0..LoadStages :
         /\ op' = "from_pretrained"
         /\ args' = [stage |-> stage]
         /\ ret' = <<>>
         /\ calls' = <<>>
         /\ IF stage = LoadStages
            THEN /\ outcome' = "return"
                 /\ attrs' = AssignedAt(stage)
                 /\ img_gen_scales' = ImgGenScales
                 /\ scale_indices' = CumulativeIndices(ImgGenScales, 0)
                 /\ loaded_image_gen_modules' = FlagSetAt(stage)
                 /\ from_pretrained_model' = TRUE
                 /\ image_patch_token' = ImagePatchToken
            ELSE /\ outcome' = "LoadError"
                 /\ UNCHANGED <<image_patch_token, object>>

Next == Forward \/ Generate \/ LoadImageGenModules \/ FromPretrained \/ Continue

Spec == Init /\ [][Next]_vars

\* ---- append_input_ids_with_multiscale_learnable_tokens on its own
MaxScale == 2        \* largest scale of a direct call
MaxScales == 2       \* longest list of scales of a direct call

ScaleLists == UNION {[1..n -> 1..MaxScale] : n \in 0..MaxScales}

\* attention masks of the shape of text_ids, and one that is a column short
AttentionMasks(text_ids) ==
    {[b \in 1..Size0(text_ids) |-> [s \in 1..Size1(text_ids) |-> IF s <= z THEN 0 ELSE 1]]
        : z \in 0..1}
    \cup {[b \in 1..Size0(text_ids) |-> Rep(1, Size1(text_ids) - 1)]}

AppendTokens ==
    /\ Idle
    /\ \E text_ids \in IdTensors, scales \in ScaleLists :
       \E attention_mask \in AttentionMasks(text_ids) :
         \E r \in {append_input_ids_with_multiscale_learnable_tokens(
                      Some(text_ids), Some(attention_mask), scales,
                      image_patch_token + 1, image_patch_token + 2, image_patch_token)} :
            /\ op' = "append_input_ids_with_multiscale_learnable_tokens"
            /\ args' = [text_ids |-> text_ids, attention_mask |-> attention_mask,
                        scales |-> scales, start_token_id |-> image_patch_token + 1,
                        end_token_id |-> image_patch_token + 2,
                        patch_token_id |-> image_patch_token]
            /\ outcome' = r.outcome
            /\ ret' = IF r.outcome = "return" THEN r.ret ELSE <<>>
            /\ calls' = <<>>
            /\ UNCHANGED <<image_patch_token, object>>

NextAppend == AppendTokens \/ Continue

SpecAppend == Init /\ [][NextAppend]_vars

\* ===================================================== the claims
\* ---- prompt_wrap_vision (C1, C2, C3, C5) and prompt_wrap_navit (C4)

\* the placeholder id a prompt_wrap_vision call works with
CallToken ==
    IF Len(args.image_token_id) = 1 THEN args.image_token_id[1] ELSE args.config_token

\* the call got both input_ids and vision_embeds
WrapCase ==
    /\ op = "prompt_wrap_vision"
    /\ Len(args.input_ids) = 1
    /\ Len(args.vision_embeds) = 1

CallIds == args.input_ids[1]
CallEmbeds == args.inputs_embeds[1]
Positions(ids) == {p \in (1..Len(ids)) \X (1..MaxSeq + 1) : p[2] <= Len(ids[p[1]])}
PlaceholderPositions(ids, tok) == {p \in Positions(ids) : ids[p[1]][p[2]] = tok}

\* the rank of position p among the placeholders, batch first, then sequence
Rank(ids, tok, p) ==
    Cardinality({q \in PlaceholderPositions(ids, tok) :
                    q[1] < p[1] \/ (q[1] = p[1] /\ q[2] <= p[2])})

\* the k-th row of the vision features, 2-d or 3-d
RowCount(v) == IF v.ndim = 2 THEN Len(v.data) ELSE Len(v.data) * Len(v.data[1])
RowK(v, k) ==
    IF v.ndim = 2 THEN v.data[k]
    ELSE v.data[((k - 1) \div Len(v.data[1])) + 1][((k - 1) % Len(v.data[1])) + 1]

CountsMatch ==
    Cardinality(PlaceholderPositions(CallIds, CallToken)) = RowCount(args.vision_embeds[1])

\* C1: with as many placeholder positions as feature rows, prompt_wrap_vision
\* returns embeddings whose k-th placeholder position (batch first, then
\* sequence) holds the k-th feature row.
C1_KthPlaceholderHoldsKthRow ==
    (WrapCase /\ CountsMatch) =>
        /\ outcome = "return"
        /\ \A p \in PlaceholderPositions(CallIds, CallToken) :
              ret.embeds[1][p[1]][p[2]]
                  = RowK(args.vision_embeds[1], Rank(CallIds, CallToken, p))

\* placeholders in both batch rows were filled, from a 2-d and from a 3-d tensor
C1_Witness ==
    /\ WrapCase /\ CountsMatch /\ outcome = "return"
    /\ Len(CallIds) = 2
    /\ \E p, q \in PlaceholderPositions(CallIds, CallToken) : p[1] = 1 /\ q[1] = 2
    /\ ret.embeds[1] # CallEmbeds

\* C2: prompt_wrap_vision keeps the text embedding of every position that is
\* not a placeholder, and returns embeddings of the input's batch size and
\* sequence length.
C2_OtherPositionsKept ==
    (op = "prompt_wrap_vision" /\ outcome = "return") =>
        /\ Len(ret.embeds[1]) = Len(CallEmbeds)
        /\ \A b \in 1..Len(CallEmbeds) : Len(ret.embeds[1][b]) = Len(CallEmbeds[b])
        /\ IF WrapCase
           THEN \A p \in Positions(CallIds) \ PlaceholderPositions(CallIds, CallToken) :
                    ret.embeds[1][p[1]][p[2]] = CallEmbeds[p[1]][p[2]]
           ELSE ret.embeds[1] = CallEmbeds

\* a substitution that left a text position after a placeholder position
C2_Witness ==
    /\ WrapCase /\ outcome = "return" /\ ret.arity = 2
    /\ \E p \in PlaceholderPositions(CallIds, CallToken) :
       \E q \in Positions(CallIds) \ PlaceholderPositions(CallIds, CallToken) :
          /\ Rank(CallIds, CallToken, q) >= 1
          /\ ret.embeds[1][p[1]][p[2]] # CallEmbeds[p[1]][p[2]]

\* the rows of the call's vision features
CallRows == {RowK(args.vision_embeds[1], k) : k \in 1..RowCount(args.vision_embeds[1])}

\* C3: the returned image mask has one boolean per (batch, sequence) position,
\* true exactly where a vision feature row replaced the embedding and false
\* where the text embedding was kept.
C3_MaskMarksReplaced ==
    (WrapCase /\ outcome = "return") =>
        /\ ret.arity = 2
        /\ Len(ret.image_mask[1]) = Len(CallIds)
        /\ \A b \in 1..Len(CallIds) : Len(ret.image_mask[1][b]) = Len(CallIds[b])
        /\ \A p \in Positions(CallIds) :
              IF ret.image_mask[1][p[1]][p[2]]
              THEN /\ ret.embeds[1][p[1]][p[2]] \in CallRows
                   /\ ret.embeds[1][p[1]][p[2]] # CallEmbeds[p[1]][p[2]]
              ELSE ret.embeds[1][p[1]][p[2]] = CallEmbeds[p[1]][p[2]]

\* a mask with a true entry in the second batch row and a false entry
C3_Witness ==
    /\ WrapCase /\ outcome = "return" /\ ret.arity = 2
    /\ Len(CallIds) = 2
    /\ \E s \in 1..Len(CallIds[2]) : ret.image_mask[1][2][s]
    /\ \E p \in Positions(CallIds) : ~ret.image_mask[1][p[1]][p[2]]

\* the call got image and video features and no audio
NavitBothCase ==
    /\ op = "prompt_wrap_navit"
    /\ Len(args.query_embeds_image) = 1
    /\ Len(args.query_embeds_video) = 1
    /\ Len(args.audio) = 0

NavitRows ==
    {args.query_embeds_image[1].data[k] : k \in 1..Len(args.query_embeds_image[1].data)}
    \cup {args.query_embeds_video[1].data[k] : k \in 1..Len(args.query_embeds_video[1].data)}

\* C4: given image and video features, both with rows, that together have as
\* many rows as there are placeholders, prompt_wrap_navit succeeds and every supplied row is at some
\* placeholder position of the result.
C4_ImageAndVideoBothSpliced ==
    (/\ NavitBothCase
     /\ Len(args.query_embeds_image[1].data) >= 1
     /\ Len(args.query_embeds_video[1].data) >= 1
     /\ Len(args.query_embeds_image[1].data) + Len(args.query_embeds_video[1].data)
            = Cardinality(PlaceholderPositions(args.input_ids, args.config_token)))
    => /\ outcome = "return"
       /\ \A row \in NavitRows :
             \E p \in PlaceholderPositions(args.input_ids, args.config_token) :
                ret.embeds[1][p[1]][p[2]] = row

\* C5: with both arguments given and a placeholder count different from the
\* number of feature rows, prompt_wrap_vision raises ValueError and returns
\* neither embeddings nor a mask.
C5_MismatchRaises ==
    (WrapCase /\ ~CountsMatch) =>
        /\ outcome = "ValueError"
        /\ ret.arity = 0
        /\ ret.embeds = <<>>
        /\ ret.image_mask = <<>>

\* raised with more placeholders than rows, and the rows were not empty
C5_Witness ==
    /\ WrapCase /\ outcome = "ValueError"
    /\ Cardinality(PlaceholderPositions(CallIds, CallToken))
           > RowCount(args.vision_embeds[1])
    /\ RowCount(args.vision_embeds[1]) > 0

\* ---- forward and generate (C6, C7, C8)

Given(o) == Len(o) = 1
AnyModality ==
    Given(args.pixel_values) \/ Given(args.pixel_values_videos) \/ Given(args.audio_feats)

\* the positions of `calls` that hold an event of one of the names
EventsOf(names) == {i \in 1..Len(calls) : calls[i].ev \in names}
EncoderEvents == {"extract_image_feature", "extract_audio_feature"}
LMEvents == {"model", "model.forward", "model.generate", "connector",
             "diffusion_loss.sample"}

\* C6: forward raises ValueError before any encoder or the inner LM runs when
\* input_ids and inputs_embeds are both given or both missing, and when
\* inputs_embeds comes with pixel_values, pixel_values_videos or audio_feats.
C6_ForwardRejectsBadArguments ==
    (/\ op = "forward"
     /\ \/ Given(args.input_ids) = Given(args.inputs_embeds)
        \/ Given(args.inputs_embeds) /\ AnyModality)
    => /\ outcome = "ValueError"
       /\ calls = <<>>

\* inputs_embeds alone with a modality input: the second check raised
C6_Witness ==
    /\ op = "forward" /\ outcome = "ValueError" /\ calls = <<>>
    /\ ~Given(args.input_ids) /\ Given(args.inputs_embeds)
    /\ Given(args.pixel_values_videos)

\* C7: a forward call with inputs_embeds only (no input_ids, no modality
\* input) returns, having called the inner LM with those embeddings.
C7_EmbedsOnlyAccepted ==
    (/\ op = "forward"
     /\ ~Given(args.input_ids) /\ Given(args.inputs_embeds) /\ ~AnyModality)
    => /\ outcome = "return"
       /\ \E i \in EventsOf({"model"}) : calls[i].arg.inputs_embeds = args.inputs_embeds

\* forward, or generate without image generation
PlainCall == op = "forward" \/ (op = "generate" /\ ~args.image_gen)

\* the encoder calls the arguments ask for, in the order image, video, audio
WantedEncoders ==
    (IF Given(args.pixel_values) THEN <<"image">> ELSE <<>>)
    \o (IF Given(args.pixel_values_videos) THEN <<"video">> ELSE <<>>)
    \o (IF Given(args.audio_feats) THEN <<"audio">> ELSE <<>>)

\* the first events are exactly the wanted encoder calls, once each
EncodersFirst ==
    /\ Len(calls) >= Len(WantedEncoders)
    /\ \A i \in 1..Len(WantedEncoders) :
          calls[i].ev \in EncoderEvents /\ calls[i].arg = WantedEncoders[i]
    /\ \A i \in EventsOf(EncoderEvents) : i <= Len(WantedEncoders)

\* the last event is the only call of the inner LM
LMLastAndOnce ==
    /\ Len(calls) >= 1
    /\ EventsOf(LMEvents) = {Len(calls)}
    /\ calls[Len(calls)].ev = (IF op = "forward" THEN "model" ELSE "model.generate")

\* one substitution, just before the LM, whose result the LM received
SubstitutedThenLM ==
    /\ Len(calls) = Len(WantedEncoders) + 2
    /\ calls[Len(calls) - 1].ev = "prompt_wrap_navit"
    /\ calls[Len(calls) - 1].arg.arity = 3
    /\ calls[Len(calls)].arg.inputs_embeds = calls[Len(calls) - 1].arg.embeds
    /\ calls[Len(calls)].arg.image_mask = calls[Len(calls) - 1].arg.image_mask
    /\ calls[Len(calls)].arg.audio_mask = calls[Len(calls) - 1].arg.audio_mask

\* no substitution: the LM received the token embeddings and no mask
PlainThenLM ==
    /\ Len(calls) = Len(WantedEncoders) + 2
    /\ calls[Len(calls) - 1].ev = "get_input_embeddings"
    /\ LET e == calls[Len(calls)].arg.inputs_embeds[1]
           ids == args.input_ids[1]
       IN /\ Len(e) = Len(ids)
          /\ \A p \in Positions(ids) : \A h \in 1..HiddenSize :
                e[p[1]][p[2]][h] = 10 * ids[p[1]][p[2]] + h
    /\ calls[Len(calls)].arg.image_mask = <<>>
    /\ calls[Len(calls)].arg.audio_mask = <<>>

\* C8 as stated: a returning forward / plain generate call with a modality
\* input ran each wanted encoder once, then the substitution, then the LM
\* once with the substituted embeddings and the masks of the substitution.
C8_Original ==
    (PlainCall /\ outcome = "return" /\ AnyModality) =>
        /\ EncodersFirst
        /\ LMLastAndOnce
        /\ SubstitutedThenLM

\* C8 amended: a returning call ran each wanted encoder once and first, and
\* the LM once and last; with a modality input and a sequence longer than one
\* token the substitution ran in between and the LM got its result, otherwise
\* the LM got the plain token embeddings and no mask.  A call that raises has
\* not called the LM.
C8_EncodersThenSubstitutionThenLM ==
    PlainCall =>
        IF outcome = "return"
        THEN /\ EncodersFirst
             /\ LMLastAndOnce
             /\ IF AnyModality /\ Len(args.input_ids[1][1]) # 1
                THEN SubstitutedThenLM
                ELSE PlainThenLM
        ELSE EventsOf(LMEvents) = {}

\* generate with image and audio inputs: both encoders, substitution, LM
C8_Witness ==
    /\ op = "generate" /\ ~args.image_gen /\ outcome = "return"
    /\ Given(args.pixel_values) /\ Given(args.audio_feats)
    /\ Len(calls) = 4
    /\ calls[3].ev = "prompt_wrap_navit"
    /\ Given(calls[4].arg.image_mask) /\ Given(calls[4].arg.audio_mask)

\* ---- the image-generation modules (C9)
AllModules == {"query_tokens_dict", "img_gen_scales", "scale_indices", "diffusion_loss",
               "connector", "proj_in", "proj_out"}

\* the flag is false after construction, true only with every module
\* assigned, true on every object from_pretrained returned; and generate
\* with image_gen fails its assertion while the flag is false
FlagState ==
    /\ op = "__init__" => ~loaded_image_gen_modules
    /\ loaded_image_gen_modules =>
          /\ AllModules \subseteq attrs
          /\ Len(img_gen_scales) = 3 /\ Len(scale_indices) = 3
    /\ from_pretrained_model => loaded_image_gen_modules
    /\ (op = "from_pretrained" /\ outcome = "return") => from_pretrained_model
    /\ (op = "generate" /\ args.image_gen /\ ~loaded_image_gen_modules) =>
          /\ outcome = "AssertionError"
          /\ EventsOf(LMEvents \cup {"prompt_wrap_navit"}) = {}

\* the flag turns true only in a load that returned, and never turns false
FlagStep ==
    /\ (~loaded_image_gen_modules /\ loaded_image_gen_modules') =>
          /\ op' \in {"load_image_gen_modules", "from_pretrained"}
          /\ outcome' = "return"
    /\ loaded_image_gen_modules => loaded_image_gen_modules'

\* C9: loaded_image_gen_modules is false from construction until a load has
\* assigned all the modules; generate with image_gen fails its assertion
\* while it is false; from_pretrained returns only loaded objects.
C9_ImageGenOnlyWhenLoaded == [](FlagState) /\ [][FlagStep]_vars

\* image generation refused on an object whose load stopped at the projections
C9_Witness ==
    /\ op = "generate" /\ args.image_gen /\ outcome = "AssertionError"
    /\ ~loaded_image_gen_modules
    /\ AllModules \subseteq attrs

\* ---- append_input_ids_with_multiscale_learnable_tokens (C10)
AppendCase == op = "append_input_ids_with_multiscale_learnable_tokens"

\* the number of tokens appended for the first n scales
RECURSIVE Appended(_, _)
Appended(scales, n) ==
    IF n = 0 THEN 0 ELSE Appended(scales, n - 1) + scales[n] * scales[n] + 2

\* C10: for one sequence of length L the returned text_ids are the L ids
\* followed, per scale s in order, by a start token, s*s patch tokens and an
\* end token; text_ids, attention_mask and gen_mask all have length
\* L + sum(s*s + 2).
C10_AppendsScaleBlocks ==
    (AppendCase /\ outcome = "return") =>
        LET L == Len(args.text_ids[1])
            out == ret.text_ids[1]
            total == L + Appended(args.scales, Len(args.scales))
        IN /\ Len(ret.text_ids) = 1
           /\ Len(out) = total
           /\ Len(ret.attention_mask[1]) = total
           /\ Len(ret.gen_mask[1]) = total
           /\ \A i \in 1..L : out[i] = args.text_ids[1][i]
           /\ \A j \in 1..Len(args.scales) :
                 LET off == L + Appended(args.scales, j - 1)
                     n == args.scales[j] * args.scales[j]
                 IN /\ out[off + 1] = args.start_token_id
                    /\ \A k \in 1..n : out[off + 1 + k] = args.patch_token_id
                    /\ out[off + n + 2] = args.end_token_id

\* two different scales appended to a two-token prompt
C10_Witness ==
    /\ AppendCase /\ outcome = "return"
    /\ Len(args.text_ids[1]) = 2
    /\ Len(args.scales) = 2 /\ args.scales[1] # args.scales[2]
    /\ Len(ret.text_ids[1]) > Len(args.text_ids[1])

\* the positions (1-based) of the patch tokens appended for the scales
AppendedPatchPositions(L, scales) ==
    UNION {LET off == L + Appended(scales, j - 1)
           IN (off + 2)..(off + 1 + scales[j] * scales[j]) : j \in 1..Len(scales)}

\* C11: in the result gen_mask is 1 at exactly the appended patch-token
\* positions (0 on the original prefix and on every appended start and end
\* token), and attention_mask is the original on the prefix and 1 at every
\* appended position.
C11_GenMaskMarksPatchTokens ==
    (AppendCase /\ outcome = "return") =>
        LET L == Len(args.text_ids[1])
            gen == ret.gen_mask[1]
            attn == ret.attention_mask[1]
            patches == AppendedPatchPositions(L, args.scales)
        IN /\ \A i \in 1..Len(gen) : gen[i] = (IF i \in patches THEN 1 ELSE 0)
           /\ patches \subseteq 1..Len(gen)
           /\ \A i \in 1..Len(attn) :
                 attn[i] = (IF i <= L THEN args.attention_mask[1][i] ELSE 1)

\* a call with a 0 in the original attention mask, a placeholder in the
\* original prompt and two scales, so that every kind of position occurs
C11_Witness ==
    /\ AppendCase /\ outcome = "return"
    /\ Len(args.scales) = 2
    /\ \E i \in 1..Len(args.text_ids[1]) :
          /\ args.attention_mask[1][i] = 0
          /\ args.text_ids[1][i] = args.patch_token_id
    /\ \E i \in 1..Len(ret.gen_mask[1]) : ret.gen_mask[1][i] = 1
    /\ \E i \in (Len(args.text_ids[1]) + 1)..Len(ret.gen_mask[1]) : ret.gen_mask[1][i] = 0

\* ---- generate with image_gen (C12, C13)
\* a call of generate(image_gen=True) on a loaded model that gets past the
\* assertions on its arguments: one prompt, no video
ImageGenCase ==
    /\ op = "generate" /\ args.image_gen
    /\ loaded_image_gen_modules
    /\ ~IsNone(args.input_ids) /\ Size0(Val(args.input_ids)) = 1
    /\ IsNone(args.pixel_values_videos)

\* what the call's append returns for its prompt
GenAppended ==
    append_input_ids_with_multiscale_learnable_tokens(
        args.input_ids, args.attention_mask, GenerateScales,
        image_patch_token + 1, image_patch_token + 2, image_patch_token).ret

\* the patch tokens the append adds to the prompt
PatchTokensAppended ==
    MaskSum(EqMask(GenAppended.text_ids, image_patch_token))
    - MaskSum(EqMask(Val(args.input_ids), image_patch_token))

\* the gen-masked positions, one hidden state each
GenMasked == Cardinality({i \in 1..Size1(GenAppended.gen_mask) : GenAppended.gen_mask[1][i] # 0})

\* the rows of the input image features
ImageRows == IF IsNone(args.pixel_values) THEN 0 ELSE Val(args.pixel_values).n

\* C12: in generate with image_gen on a loaded model the patch tokens
\* appended, the query-token rows concatenated and the last entry of
\* scale_indices are all 16 + 64 + 256 = 336; the assertion on the number of
\* gen-masked hidden states never fails, and the call raises ValueError
\* only when the prompt's own placeholders differ in number from the input
\* image feature rows.
C12_CountsAgree ==
    ImageGenCase =>
        /\ PatchTokensAppended = 16 + 64 + 256
        /\ Len(ConcatQueryTokens(img_gen_scales)) = PatchTokensAppended
        /\ Last(scale_indices) = PatchTokensAppended
        /\ GenMasked = Last(scale_indices)
        /\ outcome # "AssertionError"
        /\ (MaskSum(EqMask(Val(args.input_ids), image_patch_token)) = ImageRows)
              => outcome = "return"

\* a prompt with a placeholder and image features of one row, sampled
C12_Witness ==
    /\ ImageGenCase
    /\ ImageRows = 1
    /\ MaskSum(EqMask(Val(args.input_ids), image_patch_token)) = 1
    /\ outcome = "return"
    /\ \E k \in 1..Len(calls) : calls[k].ev = "diffusion_loss.sample"

\* the only event of `calls` with the name, when there is exactly one
TheEvent(name) == calls[CHOOSE i \in EventsOf({name}) : TRUE]

\* the scales in scale order with, for each, the offset of its block
SplicedQueryTokens(E, L) ==
    \A j \in 1..Len(ImgGenScales) :
        LET off == L + Appended(ImgGenScales, j - 1)
            rows == query_tokens_dict(ImgGenScales[j])
        IN \A m \in 1..(ImgGenScales[j] * ImgGenScales[j]) : E[off + 1 + m] = rows[m]

\* C13: in a returning generate(image_gen=True) call with input image
\* features, the prompt's own placeholder positions hold the image feature
\* rows in order and the appended placeholder positions hold the query-token
\* rows of 4x4, then 8x8, then 16x16; the connector and the sampler get only
\* the hidden states of the last scale's 256 gen-masked positions (gen
\* indices 80 to 335); the inner LM's generate is never called.
C13_ImageGenSplicesAndSlices ==
    (ImageGenCase /\ Given(args.pixel_values)) =>
        /\ EventsOf({"model.generate"}) = {}
        /\ outcome = "return" =>
            /\ \A name \in {"prompt_wrap_navit", "model.forward", "connector",
                            "diffusion_loss.sample"} :
                  Cardinality(EventsOf({name})) = 1
            /\ \A ids \in {Val(args.input_ids)[1]},
                  E \in {Val(TheEvent("prompt_wrap_navit").arg.embeds)[1]},
                  H \in {HiddenStates(Val(TheEvent("model.forward").arg.inputs_embeds))[1]},
                  sl \in {TheEvent("connector").arg} :
                  LET L == Len(ids)
                      own == {i \in 1..L : ids[i] = image_patch_token}
                      feats == extract_image_feature(Val(args.pixel_values)).data
                      first == L + Appended(ImgGenScales, 2) + 1
                  IN /\ \A i \in own : E[i] = feats[Cardinality({k \in own : k <= i})]
                     /\ SplicedQueryTokens(E, L)
                     /\ sl.scale = 16
                     /\ Len(sl.rows) = 1 /\ Len(sl.rows[1]) = 256
                     /\ \A i \in 1..256 : sl.rows[1][i] = H[first + i]
                     /\ TheEvent("diffusion_loss.sample").arg = 16

\* a returning call whose prompt has two placeholders among its tokens
C13_Witness ==
    /\ ImageGenCase /\ Given(args.pixel_values)
    /\ outcome = "return"
    /\ ImageRows = 2
    /\ EventsOf({"connector"}) # {}
    /\ EventsOf({"model.generate"}) = {}

====
